---- MODULE Spec2Model ----
(***************************************************************************)
(* Budget-alert evaluation engine of the FinOpsAI platform:                *)
(*   src/src/utils/db.py             cost ledger, budget registry, alerts   *)
(*   src/src/analyzers/budget_alerts.py   BudgetAlert.check_budgets         *)
(*   src/src/scripts/check_budgets.py     the evaluation+dispatch cycle     *)
(*   src/src/utils/notification.py        the e-mail and Slack channels     *)
(*   src/src/utils/helpers.py             format_cost_data                  *)
(* Money is counted in whole currency units; a percentage is an exact       *)
(* fraction in lowest terms.                                                *)
(***************************************************************************)
EXTENDS Integers, Sequences, FiniteSets, TLC

VARIABLES
    cost_data,      \* table cost_data: the rows in insertion order (row id = index)
    budgets,        \* table budgets: the rows in insertion order (row id = index)
    budget_alerts,  \* table budget_alerts: the rows in insertion order (row id = index)
    clock,          \* index into Clock: the day datetime.datetime.now() returns
    config,         \* the settings config.py reads from the environment
    run             \* run[p]: the local variables of invocation p of the script

vars == <<cost_data, budgets, budget_alerts, clock, config, run>>

(***************************************************************************)
(* Bounds of the model.                                                    *)
(***************************************************************************)
MaxRecords == 2
MaxBudgets == 2
MaxAlerts == 2
MaxWindows == 2

Procs == {1, 2}

None == "None"

\* Python truthiness of an optional string: None and '' are falsy.
Truthy(s) == s # None /\ s # ""

(***************************************************************************)
(* Calendar dates and their text forms.  A date is <<year, month, day>>.   *)
(* SQLite compares the stored text of a date column with the text of the   *)
(* query parameter byte by byte.  A text is <<year, month, day, tail>>:    *)
(* tail 0 is 'YYYY-MM-DD', tail 1 is 'YYYY-MM-DD 00:00:00.000000', the     *)
(* form a pandas datetime column takes when it is written to SQLite.       *)
(***************************************************************************)
Date(y, m, d) == <<y, m, d>>

\* The days on which the system is observed; a behaviour plays on one of them.
Clock == << Date(2024, 5, 15), Date(2024, 6, 1) >>

strftime(date) == <<date[1], date[2], date[3], 0>>

to_datetime(date) == <<date[1], date[2], date[3], 1>>

TextLess(a, b) ==
    \/ a[1] < b[1]
    \/ a[1] = b[1] /\ a[2] < b[2]
    \/ a[1] = b[1] /\ a[2] = b[2] /\ a[3] < b[3]
    \/ a[1] = b[1] /\ a[2] = b[2] /\ a[3] = b[3] /\ a[4] < b[4]

TextLE(a, b) == a = b \/ TextLess(a, b)

DateOf(text) == <<text[1], text[2], text[3]>>

DateLE(a, b) == TextLE(strftime(a), strftime(b))

(***************************************************************************)
(* Arithmetic.  percentage = (total_cost - amount) / amount * 100 is kept  *)
(* as the fraction it denotes, in lowest terms with a positive             *)
(* denominator; a division by a zero amount gives the float infinity.      *)
(***************************************************************************)
Abs(n) == IF n < 0 THEN -n ELSE n

RECURSIVE GCD(_, _)
GCD(a, b) == IF b = 0 THEN a ELSE GCD(b, a % b)

Inf == [num |-> 1, den |-> 0]

Ratio(n, d) ==
    IF d = 0 THEN Inf
    ELSE LET g == GCD(Abs(n), Abs(d))
             s == IF d < 0 THEN -1 ELSE 1
         IN  [num |-> (s * n) \div g, den |-> (s * d) \div g]

Whole(n) == [num |-> n, den |-> 1]

RECURSIVE SumCost(_)
SumCost(rows) ==
    IF rows = <<>> THEN 0 ELSE Head(rows).cost + SumCost(Tail(rows))

(***************************************************************************)
(* Cost ledger (db.py, helpers.py).                                        *)
(***************************************************************************)
\* A collector's record: date is a calendar date, amount the cost.
CostRecord(date, provider, service, amount) ==
    [date |-> date, provider |-> provider, service |-> service, amount |-> amount]

\* format_cost_data: the date column becomes a datetime, 'amount' is renamed 'cost'.
format_cost_data(df) ==
    [j \in DOMAIN df |->
        [date |-> to_datetime(df[j].date), provider |-> df[j].provider,
         service |-> df[j].service, cost |-> df[j].amount]]

\* Mutant: rows the table already holds are not stored again.
store_new_cost_data(rows, df) ==
    rows \o SelectSeq(df, LAMBDA r : \A j \in DOMAIN rows : rows[j] # r)

\* store_cost_data: df.to_sql(..., if_exists='append'): a blind append.
store_cost_data(rows, df) == rows \o df

\* get_cost_data: SELECT * FROM cost_data WHERE date >= ? AND date <= ? AND provider = ?
\* with each condition added only for a truthy argument.
get_cost_data(rows, start_date, end_date, provider) ==
    SelectSeq(rows, LAMBDA r:
        /\ TextLE(start_date, r.date)
        /\ TextLE(r.date, end_date)
        /\ (Truthy(provider) => r.provider = provider))

(***************************************************************************)
(* Budget registry and alert ledger (db.py).                               *)
(***************************************************************************)
Budget(name, amount, period, provider, service) ==
    [name |-> name, amount |-> amount, period |-> period,
     provider |-> provider, service |-> service]

\* create_budget: one more row; its id is its position.
create_budget(rows, b) == Append(rows, b)

\* Mutant: the row is written with notified = True.
store_notified_budget_alert(rows, budget_id, actual_cost, percentage, at) ==
    Append(rows, [budget_id |-> budget_id, actual_cost |-> actual_cost,
                  percentage |-> percentage, alert_date |-> at,
                  notified |-> TRUE])

\* store_budget_alert: one more row, notified defaulting to False and alert_date
\* to the time of the insert; the new row's id is returned by Len of the result.
store_budget_alert(rows, budget_id, actual_cost, percentage, at) ==
    Append(rows, [budget_id |-> budget_id, actual_cost |-> actual_cost,
                  percentage |-> percentage, alert_date |-> at,
                  notified |-> FALSE])

\* Mutant: every row of the alert's budget gets notified = True.
mark_alerts_of_budget_notified(rows, alert_id) ==
    IF alert_id \in DOMAIN rows
    THEN [a \in DOMAIN rows |->
            IF rows[a].budget_id = rows[alert_id].budget_id
            THEN [rows[a] EXCEPT !.notified = TRUE]
            ELSE rows[a]]
    ELSE rows

\* Mutant: every row gets notified = (id = alert_id).
mark_only_this_alert(rows, alert_id) ==
    [a \in DOMAIN rows |-> [rows[a] EXCEPT !.notified = (a = alert_id)]]

\* mark_alert_notified: the row with this id, if any, gets notified = True.
mark_alert_notified(rows, alert_id) ==
    IF alert_id \in DOMAIN rows
    THEN [rows EXCEPT ![alert_id].notified = TRUE]
    ELSE rows

(***************************************************************************)
(* BudgetAlert (budget_alerts.py).                                         *)
(***************************************************************************)
\* add_budget: self.budgets[name] = {...}.  A dict keeps the position of a key's
\* first insertion and the value of its last.
add_budget(dict, b) ==
    IF \E j \in DOMAIN dict : dict[j].name = b.name
    THEN [j \in DOMAIN dict |-> IF dict[j].name = b.name THEN b ELSE dict[j]]
    ELSE Append(dict, b)

\* The loop of check_budgets.py that feeds every row of budgets_df to add_budget.
RECURSIVE add_budgets(_, _)
add_budgets(dict, df) ==
    IF df = <<>> THEN dict ELSE add_budgets(add_budget(dict, Head(df)), Tail(df))

KnownPeriods == {"monthly", "quarterly", "yearly"}

\* Mutant: the quarter is taken from month // 3 instead of (month - 1) // 3.
start_date_by_month_over_three(period, now) ==
    CASE period = "monthly"   -> Date(now[1], now[2], 1)
      [] period = "quarterly" -> Date(now[1], (now[2] \div 3) * 3 + 1, 1)
      [] period = "yearly"    -> Date(now[1], 1, 1)

\* Mutant: the quarterly window starts with the last month of the quarter.
start_date_in_last_month_of_quarter(period, now) ==
    CASE period = "monthly"   -> Date(now[1], now[2], 1)
      [] period = "quarterly" -> Date(now[1], ((now[2] - 1) \div 3) * 3 + 3, 1)
      [] period = "yearly"    -> Date(now[1], 1, 1)

\* start_date of check_budgets for a known period.
start_date(period, now) ==
    CASE period = "monthly"   -> Date(now[1], now[2], 1)
      [] period = "quarterly" -> Date(now[1], ((now[2] - 1) \div 3) * 3 + 1, 1)
      [] period = "yearly"    -> Date(now[1], 1, 1)

\* The rows check_budgets sums for a budget: the query, then the service filter.
budget_rows(rows, budget, now) ==
    LET queried == get_cost_data(rows, strftime(start_date(budget.period, now)),
                                 strftime(now), budget.provider)
    IN  IF Truthy(budget.service)
        THEN SelectSeq(queried, LAMBDA r : r.service = budget.service)
        ELSE queried

\* Mutant: the share of the budget used, as the dashboard computes it.
percentage_used(total_cost, amount) == Ratio(total_cost * 100, amount)

\* budget_alerts.py 92.
percentage_over(total_cost, amount) == Ratio((total_cost - amount) * 100, amount)

\* Mutant: a budget of an unknown period is evaluated over the current month.
check_budget_by_month(rows, budget, now) ==
    LET period == IF budget.period \in KnownPeriods THEN budget.period ELSE "monthly"
        queried == get_cost_data(rows, strftime(start_date(period, now)),
                                 strftime(now), budget.provider)
        kept == IF Truthy(budget.service)
                THEN SelectSeq(queried, LAMBDA r : r.service = budget.service)
                ELSE queried
    IN  IF queried = <<>> \/ ~ (SumCost(kept) > budget.amount) THEN <<>>
        ELSE << [name |-> budget.name, budget |-> budget.amount,
                 actual |-> SumCost(kept),
                 percentage |-> percentage_over(SumCost(kept), budget.amount),
                 period |-> budget.period,
                 provider |-> IF Truthy(budget.provider) THEN budget.provider ELSE "All",
                 service |-> IF Truthy(budget.service) THEN budget.service ELSE "All",
                 date |-> strftime(now)] >>

\* One iteration of the loop of check_budgets: the alerts it appends for `budget`.
check_budget(rows, budget, now) ==
    IF budget.period \notin KnownPeriods THEN <<>>
    ELSE IF get_cost_data(rows, strftime(start_date(budget.period, now)),
                          strftime(now), budget.provider) = <<>> THEN <<>>
    ELSE LET total_cost == SumCost(budget_rows(rows, budget, now))
         IN  IF total_cost > budget.amount
             THEN << [name |-> budget.name, budget |-> budget.amount,
                      actual |-> total_cost,
                      percentage |-> percentage_over(total_cost, budget.amount),
                      period |-> budget.period,
                      provider |-> IF Truthy(budget.provider) THEN budget.provider ELSE "All",
                      service |-> IF Truthy(budget.service) THEN budget.service ELSE "All",
                      date |-> strftime(now)] >>
             ELSE <<>>

(***************************************************************************)
(* The dashboard's budget overview (budget_page.py).                       *)
(***************************************************************************)
\* budget_page.py 51-60: start_date of the overview for a known period.
overview_start_date(period, now) ==
    CASE period = "monthly"   -> Date(now[1], now[2], 1)
      [] period = "quarterly" -> Date(now[1], ((now[2] - 1) \div 3) * 3 + 1, 1)
      [] period = "yearly"    -> Date(now[1], 1, 1)

\* budget_page.py 86: the share of the budget that is used, in per cent.
percentage_of_budget(actual_cost, amount) == Ratio(actual_cost * 100, amount)

\* One iteration of the loop of render_budget_overview: the status it appends
\* for `budget` (with the window it has used), none for an unknown period.
render_budget_overview(rows, budget, now) ==
    IF budget.period \notin {"monthly", "quarterly", "yearly"} THEN <<>>
    ELSE LET first == overview_start_date(budget.period, now)
             last == now
             queried == get_cost_data(rows, strftime(first), strftime(last),
                                      budget.provider)
             actual_cost ==
                 IF queried = <<>> THEN 0
                 ELSE IF Truthy(budget.service)
                      THEN SumCost(SelectSeq(queried, LAMBDA r : r.service = budget.service))
                      ELSE SumCost(queried)
         IN  << [name |-> budget.name, budget |-> budget.amount,
                 actual |-> actual_cost,
                 percentage |-> percentage_of_budget(actual_cost, budget.amount),
                 provider |-> IF Truthy(budget.provider) THEN budget.provider ELSE "All",
                 service |-> IF Truthy(budget.service) THEN budget.service ELSE "All",
                 start_date |-> first, end_date |-> last] >>

\* Mutant: the threshold of the red progress bar, 90 per cent.
over_budget_at_90(status) == status.percentage.num > 90 * status.percentage.den

\* budget_page.py 123: if status['percentage'] > 100.
over_budget(status) == status.percentage.num > 100 * status.percentage.den

(***************************************************************************)
(* Notification channels (notification.py, config.py).                     *)
(***************************************************************************)
Config(enable_email, sender, recipients, enable_slack, webhook) ==
    [ENABLE_EMAIL |-> enable_email, EMAIL_SENDER |-> sender,
     EMAIL_RECIPIENTS |-> recipients, ENABLE_SLACK |-> enable_slack,
     SLACK_WEBHOOK_URL |-> webhook]

\* Mutant: the check of the recipient list is missing.
send_email_attempts_unaddressed(cfg) ==
    /\ cfg.ENABLE_EMAIL
    /\ cfg.EMAIL_SENDER # ""

\* send_email gets past its two early returns and opens the SMTP connection.
send_email_attempts(cfg) ==
    /\ cfg.ENABLE_EMAIL
    /\ cfg.EMAIL_SENDER # ""
    /\ cfg.EMAIL_RECIPIENTS # <<>>

\* Mutant: the enable flag is not consulted.
send_slack_attempts_unflagged(cfg) == cfg.SLACK_WEBHOOK_URL # ""

\* send_slack_notification gets past its two early returns and posts to the webhook.
send_slack_attempts(cfg) ==
    /\ cfg.ENABLE_SLACK
    /\ cfg.SLACK_WEBHOOK_URL # ""

\* BudgetAlert.send_alert_email gets past its early return.
send_alert_email_attempts(cfg) ==
    ~ (~ cfg.ENABLE_EMAIL \/ cfg.EMAIL_SENDER = "" \/ cfg.EMAIL_RECIPIENTS = <<>>)

\* What the SMTP server can do to an attempted send: accept it, or make smtplib raise.
SmtpOutcomes == {"sent", "raises"}

\* What the webhook can do to an attempted post: answer 200, answer another
\* status, or make requests raise.
HttpOutcomes == {"200", "500", "raises"}

(***************************************************************************)
(* Inputs.                                                                 *)
(***************************************************************************)
\* The frames the collectors hand to store_cost_data.
CostInputs ==
    { << CostRecord(Date(2024, 5, 10), "AWS", "EC2", 620),
         CostRecord(Date(2024, 5, 10), "AWS", "S3", 300) >>,
      << CostRecord(Date(2024, 5, 15), "AWS", "EC2", 500) >>,
      << CostRecord(Date(2024, 4, 1), "GCP", "GCE", 1250) >> }

\* The rows create_budget is asked to write.  db.py checks neither the amount
\* nor the period; the command line takes any float as --amount.
BudgetInputs ==
    { Budget("AWS-Compute", 500, "monthly", "AWS", "EC2"),
      Budget("Total", 1000, "quarterly", None, None),
      Budget("AWS-Compute", -5, "yearly", "GCP", "BigQuery"),
      Budget("Sandbox", 100, "weekly", "AWS", None) }

Configs ==
    { Config(TRUE, "ops@example.com", <<"team@example.com">>, TRUE, "https://hooks.example.com/x"),
      Config(FALSE, "ops@example.com", <<"team@example.com">>, TRUE, "https://hooks.example.com/x"),
      Config(TRUE, "", <<"team@example.com">>, TRUE, ""),
      Config(TRUE, "ops@example.com", <<>>, FALSE, "https://hooks.example.com/x"),
      Config(FALSE, "ops@example.com", <<"team@example.com">>, FALSE, "https://hooks.example.com/x") }

(***************************************************************************)
(* The script check_budgets.py, invocation p.                              *)
(***************************************************************************)
Fresh ==
    [pc |-> "idle", budgets_df |-> <<>>, alert_system |-> <<>>, now |-> Clock[1],
     k |-> 0, alerts |-> <<>>, i |-> 0, alert_id |-> 0,
     email_sent |-> FALSE, slack_sent |-> FALSE,
     smtp_io |-> FALSE, http_io |-> FALSE]

Running == {"check", "store", "email", "slack", "mark"}

\* The script has returned: its local variables are gone.
Returned == [Fresh EXCEPT !.pc = "done"]

\* The script has ended with the exception store_budget_alert raised.
Crashed == [Fresh EXCEPT !.pc = "crashed"]

\* The script has ended with the exception get_cost_data raised inside
\* check_budgets.
Aborted == [Fresh EXCEPT !.pc = "aborted"]

\* How many more alert rows invocation q may still insert.
Quota(q) ==
    CASE run[q].pc = "check" -> Len(run[q].alert_system)
      [] run[q].pc = "store" -> Len(run[q].alerts) - run[q].i + 1
      [] run[q].pc \in {"email", "slack", "mark"} -> Len(run[q].alerts) - run[q].i
      [] OTHER -> 0

Reserved == Quota(1) + Quota(2)

Init ==
    /\ cost_data = <<>>
    /\ budgets = <<>>
    /\ budget_alerts = <<>>
    /\ clock \in DOMAIN Clock
    /\ config \in Configs
    /\ run = [p \in Procs |-> Fresh]

\* app.py 'budget add', the dashboard's budget form: create_budget.
CreateBudget(b) ==
    /\ Len(budgets) < MaxBudgets
    /\ budgets' = create_budget(budgets, b)
    /\ UNCHANGED <<cost_data, budget_alerts, clock, config, run>>

\* Mutant: the rows of a frame become visible one by one; here the first is.
CollectFirstRow(df) ==
    /\ Len(cost_data) + Len(df) <= MaxRecords
    /\ cost_data' = store_cost_data(cost_data, SubSeq(format_cost_data(df), 1, 1))
    /\ UNCHANGED <<budgets, budget_alerts, clock, config, run>>

\* Mutant: the frame takes the place of the table (to_sql with if_exists='replace').
CollectReplaces(df) ==
    /\ Len(df) <= MaxRecords
    /\ cost_data' = format_cost_data(df)
    /\ UNCHANGED <<budgets, budget_alerts, clock, config, run>>

\* app.py 'collect': a collector's frame, through format_cost_data, is stored.
Collect(df) ==
    /\ Len(cost_data) + Len(df) <= MaxRecords
    /\ cost_data' = store_cost_data(cost_data, format_cost_data(df))
    /\ UNCHANGED <<budgets, budget_alerts, clock, config, run>>

\* check_budgets.py 20-43 and budget_alerts.py 52-55: read the registry, return
\* if it is empty, else fill the alert system and read the clock.
StartCycle(p) ==
    /\ run[p].pc \notin Running
    /\ Len(budget_alerts) + Reserved + Len(add_budgets(<<>>, budgets)) <= MaxAlerts
    /\ run' = [run EXCEPT ![p] =
                 IF budgets = <<>>
                 THEN Returned
                 ELSE [Fresh EXCEPT !.pc = "check", !.budgets_df = budgets,
                                    !.alert_system = add_budgets(<<>>, budgets),
                                    !.now = Clock[clock], !.k = 1]]
    /\ UNCHANGED <<cost_data, budgets, budget_alerts, clock, config>>

\* budget_alerts.py 57-111 and check_budgets.py 45-52: one iteration of the loop
\* over self.budgets; after the last one the script returns if there is no alert.
CheckBudget(p) ==
    /\ run[p].pc = "check"
    /\ LET r == run[p]
           found == r.alerts \o check_budget(cost_data, r.alert_system[r.k], r.now)
           last == r.k = Len(r.alert_system)
       IN  run' = [run EXCEPT ![p] =
                     IF ~ last
                     THEN [r EXCEPT !.alerts = found, !.k = r.k + 1]
                     ELSE IF found = <<>> THEN Returned
                     ELSE [r EXCEPT !.alerts = found, !.k = r.k + 1,
                                    !.i = 1, !.pc = "store"]]
    /\ UNCHANGED <<cost_data, budgets, budget_alerts, clock, config>>

\* budget_alerts.py 72-76: get_cost_data raises (the ledger cannot be read).
\* Neither check_budgets nor the script has a handler: the invocation ends with
\* the exception.  A budget of an unknown period never gets as far as the query.
QueryFails(p) ==
    /\ run[p].pc = "check"
    /\ run[p].alert_system[run[p].k].period \in KnownPeriods
    /\ run' = [run EXCEPT ![p] = Aborted]
    /\ UNCHANGED <<cost_data, budgets, budget_alerts, clock, config>>

\* check_budgets.py 55-60: the id of the first row of budgets_df with the alert's name.
find_budget_id(df, name) ==
    IF \E j \in DOMAIN df : df[j].name = name
    THEN CHOOSE j \in DOMAIN df :
            df[j].name = name /\ \A h \in DOMAIN df : df[h].name = name => j <= h
    ELSE 0

\* After an alert is done with: the next alert of the list, or the end of the script.
NextAlert(r) ==
    IF r.i < Len(r.alerts)
    THEN [r EXCEPT !.i = r.i + 1, !.pc = "store"]
    ELSE Returned

\* Mutant: an alert is dropped when the ledger already holds a row of its budget.
StoreAlertOncePerBudget(p) ==
    /\ run[p].pc = "store"
    /\ LET r == run[p]
           alert == r.alerts[r.i]
           budget_id == find_budget_id(r.budgets_df, alert.name)
       IN  IF budget_id = 0
              \/ \E a \in DOMAIN budget_alerts : budget_alerts[a].budget_id = budget_id
           THEN /\ run' = [run EXCEPT ![p] = NextAlert(r)]
                /\ UNCHANGED budget_alerts
           ELSE /\ budget_alerts' = store_budget_alert(budget_alerts, budget_id,
                                        alert.actual, alert.percentage, Clock[clock])
                /\ run' = [run EXCEPT ![p] =
                             [r EXCEPT !.alert_id = Len(budget_alerts) + 1,
                                       !.pc = "email"]]
    /\ UNCHANGED <<cost_data, budgets, clock, config>>

\* check_budgets.py 52-75: look the budget id up and store the alert row.
StoreAlert(p) ==
    /\ run[p].pc = "store"
    /\ LET r == run[p]
           alert == r.alerts[r.i]
           budget_id == find_budget_id(r.budgets_df, alert.name)
       IN  IF budget_id = 0
           THEN /\ run' = [run EXCEPT ![p] = NextAlert(r)]
                /\ UNCHANGED budget_alerts
           ELSE /\ budget_alerts' = store_budget_alert(budget_alerts, budget_id,
                                        alert.actual, alert.percentage, Clock[clock])
                /\ run' = [run EXCEPT ![p] =
                             [r EXCEPT !.alert_id = Len(budget_alerts) + 1,
                                       !.pc = "email"]]
    /\ UNCHANGED <<cost_data, budgets, clock, config>>

\* Mutant: the exception of store_budget_alert is swallowed and the alert is sent.
StoreAlertSwallowed(p) ==
    /\ run[p].pc = "store"
    /\ run' = [run EXCEPT ![p] = [@ EXCEPT !.alert_id = 0, !.pc = "email"]]
    /\ UNCHANGED <<cost_data, budgets, budget_alerts, clock, config>>

\* store_budget_alert raises (the commit fails): the script has no handler, the
\* invocation ends with the exception.
StoreAlertFails(p) ==
    /\ run[p].pc = "store"
    /\ run' = [run EXCEPT ![p] = Crashed]
    /\ UNCHANGED <<cost_data, budgets, budget_alerts, clock, config>>

\* send_email's return value for what the SMTP server does.
send_email(cfg, outcome) == send_email_attempts(cfg) /\ outcome = "sent"

\* send_slack_notification's return value for what the webhook does.
send_slack_notification(cfg, outcome) == send_slack_attempts(cfg) /\ outcome = "200"

\* Mutant: an exception raised by smtplib leaves send_email and ends the script.
SendEmailPropagates(p) ==
    /\ run[p].pc = "email"
    /\ \E outcome \in SmtpOutcomes :
         run' = [run EXCEPT ![p] =
                   IF send_email_attempts(config) /\ outcome = "raises"
                   THEN Crashed
                   ELSE [@ EXCEPT !.email_sent = send_email(config, outcome),
                                  !.smtp_io = send_email_attempts(config),
                                  !.pc = "slack"]]
    /\ UNCHANGED <<cost_data, budgets, budget_alerts, clock, config>>

\* check_budgets.py 77-99: the e-mail channel.
SendEmail(p) ==
    /\ run[p].pc = "email"
    /\ \E outcome \in SmtpOutcomes :
         run' = [run EXCEPT ![p] =
                   [@ EXCEPT !.email_sent = send_email(config, outcome),
                             !.smtp_io = send_email_attempts(config),
                             !.pc = "slack"]]
    /\ UNCHANGED <<cost_data, budgets, budget_alerts, clock, config>>

\* check_budgets.py 101-106: the Slack channel.
SendSlack(p) ==
    /\ run[p].pc = "slack"
    /\ \E outcome \in HttpOutcomes :
         run' = [run EXCEPT ![p] =
                   [@ EXCEPT !.slack_sent = send_slack_notification(config, outcome),
                             !.http_io = send_slack_attempts(config),
                             !.pc = "mark"]]
    /\ UNCHANGED <<cost_data, budgets, budget_alerts, clock, config>>

\* Mutant: both channels must have sent.
both_sent(email_sent, slack_sent) == email_sent /\ slack_sent

\* check_budgets.py 109: if email_sent or slack_sent.
either_sent(email_sent, slack_sent) == email_sent \/ slack_sent

\* check_budgets.py 108-113: mark the alert if either channel sent it, then go on.
MarkNotified(p) ==
    /\ run[p].pc = "mark"
    /\ budget_alerts' = IF either_sent(run[p].email_sent, run[p].slack_sent)
                        THEN mark_alert_notified(budget_alerts, run[p].alert_id)
                        ELSE budget_alerts
    /\ run' = [run EXCEPT ![p] = NextAlert(run[p])]
    /\ UNCHANGED <<cost_data, budgets, clock, config>>

Cycle(p) ==
    \/ StartCycle(p)
    \/ CheckBudget(p)
    \/ QueryFails(p)
    \/ StoreAlert(p)
    \/ StoreAlertFails(p)
    \/ SendEmail(p)
    \/ SendSlack(p)
    \/ MarkNotified(p)

Environment ==
    \/ \E b \in BudgetInputs : CreateBudget(b)
    \/ \E df \in CostInputs : Collect(df)

\* One invocation of the script at a time (the scheduler's normal operation).
Next == Environment \/ Cycle(1)

Spec == Init /\ [][Next]_vars

(***************************************************************************)
(* The window computation of check_budgets on its own, over the calendar:  *)
(* now is read once (budget_alerts.py 55), then the loop computes          *)
(* start_date and end_date for one budget after the other (59-69).         *)
(***************************************************************************)
Years == {2023, 2024}

IsLeap(y) == y % 4 = 0 /\ (y % 100 # 0 \/ y % 400 = 0)

DaysIn(y, m) ==
    IF m = 2 THEN (IF IsLeap(y) THEN 29 ELSE 28)
    ELSE IF m \in {4, 6, 9, 11} THEN 30 ELSE 31

\* The values datetime.datetime.now() can have, to the day.
Days == { d \in Years \X (1..12) \X (1..31) : d[3] <= DaysIn(d[1], d[2]) }

\* end_date = now.date()
end_date(now) == now

InitWindow ==
    /\ cost_data = <<>>
    /\ budgets \in { <<b>> : b \in BudgetInputs }
    /\ budget_alerts = <<>>
    /\ clock = 1
    /\ config \in Configs
    /\ \E now \in Days :
          run = [p \in Procs |-> [pc |-> "check", now |-> now, windows |-> <<>>]]

\* Mutant: the clock is read again for every budget.
ComputeWindowReadsClock(p, period) ==
    /\ Len(run[p].windows) < MaxWindows
    /\ \E now \in Days :
          run' = [run EXCEPT ![p] =
                    [@ EXCEPT !.now = now,
                              !.windows = Append(@, [period |-> period,
                                                     start_date |-> start_date(period, now),
                                                     end_date |-> end_date(now)])]]
    /\ UNCHANGED <<cost_data, budgets, budget_alerts, clock, config>>

\* budget_alerts.py 59-69 for a budget of a known period: start_date and end_date
\* are locals of the loop body; nothing else is assigned.
ComputeWindow(p, period) ==
    /\ Len(run[p].windows) < MaxWindows
    /\ run' = [run EXCEPT ![p] =
                 [@ EXCEPT !.windows = Append(@, [period |-> period,
                                                  start_date |-> start_date(period, run[p].now),
                                                  end_date |-> end_date(run[p].now)])]]
    /\ UNCHANGED <<cost_data, budgets, budget_alerts, clock, config>>

NextWindow == \E period \in KnownPeriods : ComputeWindow(1, period)

SpecWindow == InitWindow /\ [][NextWindow]_vars

(***************************************************************************)
(* One evaluation of three budgets that differ in their period only, over  *)
(* the calendar and over the ledgers the collectors can have written.      *)
(***************************************************************************)
\* The tables store_cost_data can have built from the collectors' frames.
RECURSIVE Collected(_, _)
Collected(tables, n) ==
    IF n = 0 THEN tables
    ELSE Collected(tables \cup
                     { store_cost_data(rows, format_cost_data(df)) :
                         rows \in tables,
                         df \in CostInputs },
                   n - 1)

Ledgers == { rows \in Collected({<<>>}, MaxRecords) : Len(rows) <= MaxRecords }

\* A budget registered once for each period, under the period's name.
ForEveryPeriod(b) ==
    << [b EXCEPT !.name = "monthly", !.period = "monthly"],
       [b EXCEPT !.name = "quarterly", !.period = "quarterly"],
       [b EXCEPT !.name = "yearly", !.period = "yearly"] >>

\* check_budgets.py 23-43 and budget_alerts.py 52-55 have run: the registry is
\* loaded into the alert system and now is read.
InitNested ==
    /\ cost_data \in Ledgers
    /\ budgets \in { ForEveryPeriod(b) : b \in BudgetInputs }
    /\ budget_alerts = <<>>
    /\ clock = 1
    /\ config \in { cfg \in Configs : ~ cfg.ENABLE_EMAIL /\ ~ cfg.ENABLE_SLACK }
    /\ \E now \in Days :
          run = [p \in Procs |->
                   IF p = 1
                   THEN [Fresh EXCEPT !.pc = "check", !.budgets_df = budgets,
                                      !.alert_system = add_budgets(<<>>, budgets),
                                      !.now = now, !.k = 1]
                   ELSE Fresh]

NextNested == CheckBudget(1)

SpecNested == InitNested /\ [][NextNested]_vars

(***************************************************************************)
(* Two invocations of the script at once (the scheduler starts a cycle     *)
(* while the one before it is still running), over a registry and a ledger *)
(* that were filled before.  Every call of db.py is one SQLite             *)
(* transaction, so the steps of the two invocations interleave.            *)
(***************************************************************************)
InitOverlap ==
    /\ cost_data \in Ledgers
    /\ budgets \in { <<b>> : b \in BudgetInputs }
    /\ budget_alerts = <<>>
    /\ clock \in DOMAIN Clock
    /\ config \in Configs
    /\ run = [p \in Procs |-> Fresh]

NextOverlap == \E p \in Procs : Cycle(p)

SpecOverlap == InitOverlap /\ [][NextOverlap]_vars

(***************************************************************************)
(* Properties.                                                             *)
(***************************************************************************)
\* The step of invocation p that evaluates one budget of the alert system
\* (and is not cut short by a ledger that cannot be read).
Evaluates(p) == run[p].pc = "check" /\ run'[p] # run[p] /\ run'[p].pc # "aborted"

Evaluated(p) == run[p].alert_system[run[p].k]

\* The rows the budget's window and filters select, decided on calendar dates.
rows_in_scope(rows, budget, now) ==
    SelectSeq(rows, LAMBDA r :
        /\ DateLE(start_date(budget.period, now), DateOf(r.date))
        /\ DateLE(DateOf(r.date), now)
        /\ (Truthy(budget.provider) => r.provider = budget.provider)
        /\ (Truthy(budget.service) => r.service = budget.service))

\* C1: an evaluation emits an alert for a budget with a known period if and only
\* if the spend it aggregates for that budget is strictly greater than the amount.
C1_AlertIffSpendExceedsAmount ==
    [][\A p \in Procs :
         (Evaluates(p) /\ Evaluated(p).period \in KnownPeriods) =>
            LET b == Evaluated(p)
                total_cost == SumCost(budget_rows(cost_data, b, run[p].now))
            IN  (Len(run'[p].alerts) = Len(run[p].alerts) + 1) <=> (total_cost > b.amount)
      ]_vars

\* C2: every emitted alert carries percentage = (actual - budget) / budget * 100
\* for the spend and amount of its own breach (1000 and 1250 give 25, 500 and 620
\* give 24), and the stored row carries the alert's spend and percentage.
C2_PercentageOver ==
    \A p \in Procs :
        /\ \A j \in DOMAIN run[p].alerts :
             LET a == run[p].alerts[j]
             IN  /\ a.actual > a.budget
                 /\ a.budget # 0 =>
                      /\ a.percentage.den > 0
                      /\ a.percentage.num * a.budget
                            = (a.actual - a.budget) * 100 * a.percentage.den
                 /\ (a.budget = 1000 /\ a.actual = 1250) => a.percentage = Whole(25)
                 /\ (a.budget = 500 /\ a.actual = 620) => a.percentage = Whole(24)
        /\ run[p].pc \in {"email", "slack", "mark"} =>
             LET a == run[p].alerts[run[p].i]
                 row == budget_alerts[run[p].alert_id]
             IN  row.actual_cost = a.actual /\ row.percentage = a.percentage

C2_Witness ==
    /\ run[1].pc = "mark"
    /\ run[1].alerts[run[1].i].budget = 1000
    /\ run[1].alerts[run[1].i].actual = 1250
    /\ budget_alerts[run[1].alert_id].percentage = Whole(25)

\* C3: the spend computed for a budget is the sum of exactly the ledger records
\* dated inside the budget's window that match its provider and service filters.
C3_SpendIsSumOfRecordsInScope ==
    [][\A p \in Procs :
         (Evaluates(p) /\ Len(run'[p].alerts) = Len(run[p].alerts) + 1) =>
            run'[p].alerts[Len(run'[p].alerts)].actual
               = SumCost(rows_in_scope(cost_data, Evaluated(p), run[p].now))
      ]_vars

\* The window of a budget that holds a timestamp.
window_of(period, at) ==
    IF period \in KnownPeriods THEN start_date(period, at) ELSE at

\* C4: the alert ledger never holds two rows for the same budget and the same
\* period window.
C4_OneAlertPerBudgetAndWindow ==
    \A a, b \in DOMAIN budget_alerts :
        (a # b /\ budget_alerts[a].budget_id = budget_alerts[b].budget_id) =>
            LET period == budgets[budget_alerts[a].budget_id].period
            IN  window_of(period, budget_alerts[a].alert_date)
                   # window_of(period, budget_alerts[b].alert_date)

\* C5: no step removes an alert row or takes its notified flag from true to false.
C5_NotifiedNeverReverts ==
    [][\A a \in DOMAIN budget_alerts :
          /\ a \in DOMAIN budget_alerts'
          /\ budget_alerts[a].notified => budget_alerts'[a].notified
      ]_vars

C5_Witness ==
    /\ Len(budget_alerts) >= 2
    /\ budget_alerts[1].notified
    /\ ~ budget_alerts[2].notified
    /\ budget_alerts[1].budget_id = budget_alerts[2].budget_id
    /\ run[1].pc = "done"

\* The step that ends the dispatch of the alert invocation p stored last.
Dispatches(p) == run[p].pc = "mark" /\ run'[p] # run[p]

\* C6: when the dispatch of an alert finishes, the alert is notified exactly if
\* the e-mail or the chat channel reported success for it.
C6_NotifiedIffAChannelSucceeded ==
    [][\A p \in Procs :
          Dispatches(p) =>
             (budget_alerts'[run[p].alert_id].notified
                 <=> (run[p].email_sent \/ run[p].slack_sent))
      ]_vars

\* E-mail is disabled, the chat channel has sent the alert, and the alert is notified.
C6_Witness ==
    /\ ~ config.ENABLE_EMAIL
    /\ run[1].pc = "store"
    /\ run[1].i = 2
    /\ ~ run[1].email_sent
    /\ run[1].slack_sent
    /\ budget_alerts[run[1].alert_id].notified

\* C7: with both channels disabled no stored alert is ever notified.
C7_BothDisabledNeverNotified ==
    (~ config.ENABLE_EMAIL /\ ~ config.ENABLE_SLACK) =>
        \A a \in DOMAIN budget_alerts : ~ budget_alerts[a].notified

C7_Witness ==
    /\ ~ config.ENABLE_EMAIL
    /\ ~ config.ENABLE_SLACK
    /\ Len(budget_alerts) >= 2
    /\ budget_alerts[1].budget_id = budget_alerts[2].budget_id
    /\ run[1].pc = "done"

\* C8: whatever the e-mail send did, the chat send comes next, and whatever the
\* chat send did, the script goes on to the marking step: no send ends the cycle;
\* a send that raises counts as not sent.
C8_ChannelsIndependent ==
    [][\A p \in Procs :
          /\ (run[p].pc = "email" /\ run'[p] # run[p]) => run'[p].pc = "slack"
          /\ (run[p].pc = "slack" /\ run'[p] # run[p]) => run'[p].pc = "mark"
          /\ ~ send_email(config, "raises")
          /\ ~ send_slack_notification(config, "raises")
      ]_vars

C8_Witness ==
    /\ run[1].pc = "mark"
    /\ run[1].smtp_io
    /\ ~ run[1].email_sent
    /\ run[1].http_io
    /\ run[1].slack_sent

EmailConfigured(cfg) ==
    cfg.ENABLE_EMAIL /\ cfg.EMAIL_SENDER # "" /\ Len(cfg.EMAIL_RECIPIENTS) > 0

ChatConfigured(cfg) == cfg.ENABLE_SLACK /\ cfg.SLACK_WEBHOOK_URL # ""

\* C9: a channel that is disabled or lacks its addressing never reports a send
\* and never touches the network.
C9_UnconfiguredChannelDoesNothing ==
    \A p \in Procs :
        /\ ~ EmailConfigured(config) =>
              /\ ~ run[p].email_sent
              /\ ~ run[p].smtp_io
              /\ ~ send_alert_email_attempts(config)
        /\ ~ ChatConfigured(config) => (~ run[p].slack_sent /\ ~ run[p].http_io)

C9_Witness ==
    /\ run[1].pc = "mark"
    /\ config.ENABLE_EMAIL
    /\ config.EMAIL_RECIPIENTS = <<>>
    /\ ~ config.ENABLE_SLACK

\* C10: an alert left un-notified is retried by the next run: once a later run
\* has finished in which a channel got the same budget's alert through, the
\* earlier alert of that budget is notified too.
C10_RetriedOnNextRun ==
    run[1].pc = "done" =>
        \A a, b \in DOMAIN budget_alerts :
            (a < b /\ budget_alerts[a].budget_id = budget_alerts[b].budget_id
                   /\ budget_alerts[b].notified)
               => budget_alerts[a].notified

\* The step of invocation p that takes up the budget at position k of the alert
\* system, however it ends.
TakesUp(p) == run[p].pc = "check" /\ run'[p] # run[p]

\* C11: a budget whose period is not monthly, quarterly or yearly is skipped: the
\* step that takes it up adds no alert, ends with no exception (it makes no ledger
\* query that could raise one), and goes on to the next budget of the registry or,
\* after the last one, to the alerts found so far.
C11_UnknownPeriodSkipped ==
    [][\A p \in Procs :
         (TakesUp(p) /\ Evaluated(p).period \notin {"monthly", "quarterly", "yearly"}) =>
            /\ run'[p].pc \notin {"aborted", "crashed"}
            /\ IF run[p].k < Len(run[p].alert_system)
               THEN /\ run'[p].pc = "check"
                    /\ run'[p].k = run[p].k + 1
                    /\ run'[p].alerts = run[p].alerts
               ELSE IF run[p].alerts = <<>>
                    THEN run'[p] = Returned
                    ELSE run'[p].pc = "store" /\ run'[p].alerts = run[p].alerts
      ]_vars

\* A weekly budget over AWS came first, AWS spend of this month is in the ledger,
\* and the only alert is the one of the budget after it.
C11_Witness ==
    /\ run[1].pc = "email"
    /\ Len(run[1].alert_system) = 2
    /\ run[1].alert_system[1].period = "weekly"
    /\ run[1].alert_system[1].provider = "AWS"
    /\ Len(run[1].alerts) = 1
    /\ run[1].alerts[1].name = "AWS-Compute"
    /\ \E j \in DOMAIN cost_data :
          cost_data[j].provider = "AWS" /\ cost_data[j].cost > run[1].alert_system[1].amount

\* C12: when no ledger record lies in a budget's window and matches its provider
\* and service filters, the evaluation of that budget emits no alert, whether the
\* query came back empty or the service filter removed what it returned.
C12_NothingInScopeNoAlert ==
    [][\A p \in Procs :
         (/\ Evaluates(p)
          /\ Evaluated(p).period \in KnownPeriods
          /\ rows_in_scope(cost_data, Evaluated(p), run[p].now) = <<>>) =>
            Len(run'[p].alerts) = Len(run[p].alerts)
      ]_vars

\* C13: no failure while one budget is evaluated or one alert is sent through a
\* channel ends the cycle: the step goes on to the next budget, the next channel
\* or the marking of the alert, never to an unhandled exception.
C13_CycleNeverAborts ==
    [][\A p \in Procs :
         (run[p].pc \in {"check", "email", "slack"} /\ run'[p] # run[p]) =>
            run'[p].pc \in Running \cup {"done"}
      ]_vars

\* C14: when the row of an alert cannot be written, the exception ends the cycle
\* at once; a channel is only ever tried for an alert whose row is in the ledger,
\* so nothing is sent for the alert that could not be persisted.
C14_PersistenceFailureEndsCycle ==
    /\ [][\A p \in Procs :
            (/\ run[p].pc = "store"
             /\ run'[p] # run[p]
             /\ find_budget_id(run[p].budgets_df, run[p].alerts[run[p].i].name) # 0
             /\ budget_alerts' = budget_alerts) =>
               run'[p] = Crashed
        ]_vars
    /\ [](\A p \in Procs :
            /\ run[p].pc \in {"email", "slack", "mark"} =>
                  /\ run[p].alert_id \in DOMAIN budget_alerts
                  /\ budget_alerts[run[p].alert_id].actual_cost
                        = run[p].alerts[run[p].i].actual
            /\ (run[p].smtp_io \/ run[p].http_io) =>
                  run[p].alert_id \in DOMAIN budget_alerts)

\* The first alert of a cycle could not be written: the script has ended with the
\* exception and the alert ledger is as empty as it was.
C14_Witness ==
    /\ run[1].pc = "crashed"
    /\ budget_alerts = <<>>
    /\ \E j \in DOMAIN budgets :
          check_budget(cost_data, budgets[j], Clock[clock]) # <<>>

\* C15: whatever day now is, the window of a budget is [start, today] with start
\* the first day of now's month for monthly, the first day of the quarter that
\* holds now's month (month ((month-1)//3)*3+1, one of 1, 4, 7, 10) for quarterly,
\* and January 1 of now's year for yearly.
C15_WindowStart ==
    \A p \in Procs : \A j \in DOMAIN run[p].windows :
        LET w == run[p].windows[j]
            now == run[p].now
        IN  /\ w.end_date = now
            /\ w.start_date[1] = now[1]
            /\ w.start_date[3] = 1
            /\ DateLE(w.start_date, w.end_date)
            /\ w.period = "monthly" => w.start_date[2] = now[2]
            /\ w.period = "quarterly" =>
                  /\ w.start_date[2] \in {1, 4, 7, 10}
                  /\ w.start_date[2] <= now[2]
                  /\ now[2] <= w.start_date[2] + 2
                  /\ w.start_date[2] = ((now[2] - 1) \div 3) * 3 + 1
            /\ w.period = "yearly" => w.start_date[2] = 1

\* On February 29 the monthly window starts on February 1, the quarterly and the
\* yearly one on January 1.
C15_Witness ==
    /\ run[1].now = Date(2024, 2, 29)
    /\ Len(run[1].windows) = 2
    /\ run[1].windows[1] = [period |-> "monthly", start_date |-> Date(2024, 2, 1),
                            end_date |-> Date(2024, 2, 29)]
    /\ run[1].windows[2] = [period |-> "quarterly", start_date |-> Date(2024, 1, 1),
                            end_date |-> Date(2024, 2, 29)]

\* C16: within one evaluation the window of a period is the same every time it is
\* computed, and computing it changes neither the ledger, nor the registry, nor
\* the alerts.
C16_WindowIsPure ==
    /\ [](\A p \in Procs : \A i, j \in DOMAIN run[p].windows :
            run[p].windows[i].period = run[p].windows[j].period =>
               run[p].windows[i] = run[p].windows[j])
    /\ [][\A p \in Procs :
            Len(run'[p].windows) > Len(run[p].windows) =>
               /\ UNCHANGED <<cost_data, budgets, budget_alerts>>
               /\ run'[p].now = run[p].now
        ]_vars

\* The quarterly window was computed twice on December 31.
C16_Witness ==
    /\ run[1].now = Date(2024, 12, 31)
    /\ Len(run[1].windows) = 2
    /\ run[1].windows[1].period = "quarterly"
    /\ run[1].windows[2] = run[1].windows[1]
    /\ run[1].windows[1].start_date = Date(2024, 10, 1)
    /\ budgets # <<>>

\* How often a row occurs in a table.
Occurrences(rows, r) == Cardinality({ j \in DOMAIN rows : rows[j] = r })

\* The sum over a set of distinct rows of cost times the row's occurrences.
RECURSIVE WeightedCost(_, _)
WeightedCost(distinct, rows) ==
    IF distinct = {} THEN 0
    ELSE LET r == CHOOSE x \in distinct : TRUE
         IN  Occurrences(rows, r) * r.cost + WeightedCost(distinct \ {r}, rows)

\* C17: the cost ledger does not de-duplicate: storing a frame adds one row for
\* each of its records even when the ledger holds the same records already, and
\* the spend summed for a budget counts a record as often as it is stored.
C17_NoDeduplication ==
    /\ [](\A df \in CostInputs :
            LET stored == store_cost_data(cost_data, format_cost_data(df))
            IN  /\ Len(stored) = Len(cost_data) + Len(df)
                /\ \A j \in DOMAIN df :
                      Occurrences(stored, format_cost_data(df)[j])
                         = Occurrences(cost_data, format_cost_data(df)[j]) + 1)
    /\ [][\A p \in Procs :
            (Evaluates(p) /\ Len(run'[p].alerts) = Len(run[p].alerts) + 1) =>
               LET summed == budget_rows(cost_data, Evaluated(p), run[p].now)
               IN  run'[p].alerts[Len(run'[p].alerts)].actual
                      = WeightedCost({ summed[j] : j \in DOMAIN summed }, summed)
        ]_vars

\* The same record was collected twice, and the alert of the budget that matches
\* it carries twice its cost.
C17_Witness ==
    /\ Len(cost_data) = 2
    /\ cost_data[1] = cost_data[2]
    /\ run[1].pc = "email"
    /\ run[1].alerts[run[1].i].actual = 2 * cost_data[1].cost
    /\ budget_alerts[run[1].alert_id].actual_cost = 2 * cost_data[1].cost

IsPrefix(a, b) == Len(a) <= Len(b) /\ SubSeq(b, 1, Len(a)) = a

\* C18: no step modifies or removes a stored cost record (the ledger only grows at
\* its end), no step modifies or removes a registered budget, and a step of the
\* evaluation+dispatch cycle leaves ledger and registry as they are.
C18_LedgerAppendOnly ==
    [][/\ IsPrefix(cost_data, cost_data')
       /\ IsPrefix(budgets, budgets')
       /\ (run' # run) => UNCHANGED <<cost_data, budgets>>
      ]_vars

\* Two collections one after the other, then a whole cycle that stored an alert
\* and marked it.
C18_Witness ==
    /\ Len(cost_data) = 2
    /\ cost_data[1].provider # cost_data[2].provider
    /\ run[1].pc = "done"
    /\ \E a \in DOMAIN budget_alerts : budget_alerts[a].notified

\* C19: for the window of every registered budget, get_cost_data returns exactly
\* the stored records dated from the window's first day to its last day (today),
\* both included, of the budget's provider when it has one.
C19_QueryBoundsInclusive ==
    \A j \in DOMAIN budgets :
        budgets[j].period \in KnownPeriods =>
            LET now == Clock[clock]
                first == start_date(budgets[j].period, now)
                provider == budgets[j].provider
            IN  get_cost_data(cost_data, strftime(first), strftime(end_date(now)), provider)
                  = SelectSeq(cost_data, LAMBDA r :
                        /\ DateLE(first, DateOf(r.date))
                        /\ DateLE(DateOf(r.date), end_date(now))
                        /\ (Truthy(provider) => r.provider = provider))

\* C20: every budget in the registry has an amount greater than zero.
C20_AmountPositive ==
    \A j \in DOMAIN budgets : budgets[j].amount > 0

\* C21: no two budgets of the registry share a name (their ids, the positions of
\* the rows, differ by construction).
C21_BudgetNamesUnique ==
    \A a, b \in DOMAIN budgets : a # b => budgets[a].name # budgets[b].name

\* C22: every stored alert row has a percentage of at least zero and the id of a
\* budget of the registry.
C22_AlertRowsWellFormed ==
    \A a \in DOMAIN budget_alerts :
        /\ budget_alerts[a].percentage.num >= 0
        /\ budget_alerts[a].budget_id \in DOMAIN budgets

\* C23: a cycle takes up every registered budget exactly once, in registry order
\* and one at a time, and stores the rows of the breaching budgets in registry
\* order, one row for each.
C23_EachBudgetOnceInOrder ==
    [][\A p \in Procs :
         /\ (run[p].pc \notin Running /\ run'[p].pc = "check") =>
               run'[p].alert_system = budgets
         /\ (Evaluates(p) /\ run'[p].pc = "check") => run'[p].k = run[p].k + 1
         /\ (run[p].pc = "store" /\ run'[p].pc = "email") =>
               /\ Len(budget_alerts') = Len(budget_alerts) + 1
               /\ run[p].i > 1 =>
                     budget_alerts'[run'[p].alert_id].budget_id
                        > budget_alerts[run[p].alert_id].budget_id
      ]_vars

\* C24: there is no suppression: whenever a cycle has found a budget in breach
\* and its row can be written, a new un-notified row is added for it, whatever
\* rows of that budget the ledger holds already, and the channels are tried next.
C24_NoSuppression ==
    [][\A p \in Procs :
         (/\ run[p].pc = "store"
          /\ run'[p] # run[p]
          /\ run'[p].pc # "crashed"
          /\ find_budget_id(run[p].budgets_df, run[p].alerts[run[p].i].name) # 0) =>
            /\ Len(budget_alerts') = Len(budget_alerts) + 1
            /\ IsPrefix(budget_alerts, budget_alerts')
            /\ budget_alerts'[Len(budget_alerts')].budget_id
                  = find_budget_id(run[p].budgets_df, run[p].alerts[run[p].i].name)
            /\ ~ budget_alerts'[Len(budget_alerts')].notified
            /\ run'[p].pc = "email"
      ]_vars

\* Two cycles on the same day with the breach persisting: two rows of the same
\* budget, and both have been notified.
C24_Witness ==
    /\ Len(budget_alerts) = 2
    /\ budget_alerts[1].budget_id = budget_alerts[2].budget_id
    /\ budget_alerts[1].actual_cost = budget_alerts[2].actual_cost
    /\ budget_alerts[1].notified
    /\ budget_alerts[2].notified
    /\ run[1].pc = "done"

\* The budget of the registry a stored alert row points to is the one the alert
\* was computed for.
AttributedTo(row, alert) ==
    LET b == budgets[row.budget_id]
    IN  /\ b.amount = alert.budget
        /\ b.period = alert.period
        /\ (IF Truthy(b.provider) THEN b.provider ELSE "All") = alert.provider
        /\ (IF Truthy(b.service) THEN b.service ELSE "All") = alert.service
        /\ row.actual_cost = alert.actual
        /\ row.percentage = alert.percentage

\* C25: every stored alert is attributed to the budget that produced it: the
\* budget its budget_id names has the amount, period, provider and service the
\* alert's spend and percentage were computed with.
C25_AlertAttributedToItsBudget ==
    \A p \in Procs :
        run[p].pc \in {"email", "slack", "mark"} =>
            AttributedTo(budget_alerts[run[p].alert_id], run[p].alerts[run[p].i])

\* C26: a cycle has evaluated all its budgets before it stores or sends anything;
\* for each alert it stores the row with notified = false, then tries e-mail, then
\* chat, then marks: nothing is sent for an alert before its row is stored, and a
\* row is marked only by the marking step that follows both attempts.
C26_StepOrder ==
    /\ [](\A p \in Procs :
            run[p].pc \in {"store", "email", "slack", "mark"} =>
               run[p].k = Len(run[p].alert_system) + 1)
    /\ [][\A p \in Procs :
            /\ (run[p].pc = "check" /\ run'[p] # run[p]) =>
                  /\ budget_alerts' = budget_alerts
                  /\ ~ run'[p].smtp_io /\ ~ run'[p].http_io
            /\ (run[p].pc = "store" /\ run'[p] # run[p]) =>
                  /\ run'[p].pc \in {"email", "store", "done", "crashed"}
                  /\ run'[p].smtp_io = run[p].smtp_io \/ run'[p].pc \in {"done", "crashed"}
                  /\ run'[p].pc = "email" =>
                        /\ run'[p].alert_id = Len(budget_alerts')
                        /\ Len(budget_alerts') = Len(budget_alerts) + 1
                        /\ ~ budget_alerts'[run'[p].alert_id].notified
            /\ (run[p].pc = "email" /\ run'[p] # run[p]) =>
                  run'[p].pc = "slack" /\ budget_alerts' = budget_alerts
            /\ (run[p].pc = "slack" /\ run'[p] # run[p]) =>
                  run'[p].pc = "mark" /\ budget_alerts' = budget_alerts
            /\ (run[p].pc = "mark" /\ run'[p] # run[p]) =>
                  run'[p].pc \in {"store", "done"}
        ]_vars
    /\ [][\A a \in DOMAIN budget_alerts :
            (~ budget_alerts[a].notified /\ budget_alerts'[a].notified) =>
               \E p \in Procs : run[p].pc = "mark" /\ run[p].alert_id = a
        ]_vars

\* The second alert of a cycle: its row is stored and not yet marked, e-mail has
\* accepted it, chat has been tried, and the first alert's row is marked.
C26_Witness ==
    /\ run[1].pc = "mark"
    /\ run[1].i = 2
    /\ run[1].alert_id = 2
    /\ run[1].email_sent
    /\ run[1].http_io
    /\ budget_alerts[1].notified
    /\ ~ budget_alerts[2].notified

\* The names of the budgets a cycle has found in breach so far.
Breached(p) == { run[p].alerts[j].name : j \in DOMAIN run[p].alerts }

\* C27: for every now the windows are nested, January 1 <= quarterly start <=
\* monthly start <= today, all in now's year; and of three budgets that differ in
\* their period only, evaluated in one cycle over non-negative costs, the
\* quarterly one is in breach when the monthly one is, and the yearly one when
\* the quarterly one is.
C27_WindowsNested ==
    \A p \in Procs :
        run[p].pc \in {"check", "store"} =>
            LET now == run[p].now
                monthly == start_date("monthly", now)
                quarterly == start_date("quarterly", now)
                yearly == start_date("yearly", now)
            IN  /\ yearly = Date(now[1], 1, 1)
                /\ DateLE(yearly, quarterly)
                /\ DateLE(quarterly, monthly)
                /\ DateLE(monthly, end_date(now))
                /\ quarterly[1] = now[1] /\ monthly[1] = now[1]
                /\ (run[p].k > 2 /\ "monthly" \in Breached(p)) => "quarterly" \in Breached(p)
                /\ (run[p].k > 3 /\ "quarterly" \in Breached(p)) => "yearly" \in Breached(p)

\* On May 31 the month's AWS spend breaks the monthly budget, and with it the
\* quarterly and the yearly one.
C27_Witness ==
    /\ run[1].now = Date(2024, 5, 31)
    /\ run[1].pc = "store"
    /\ Len(run[1].alerts) = 3
    /\ run[1].alerts[1].name = "monthly"
    /\ run[1].alerts[1].actual > 0
    /\ run[1].alerts[3].name = "yearly"

\* Invocation p has stored the row of its current alert and not yet marked it.
Sending(p) == run[p].pc \in {"email", "slack", "mark"}

\* C28: two overlapping cycles store rows of distinct ids, and each marks only
\* the row it has stored itself, and only because one of its own sends succeeded:
\* the marking step of one cycle leaves every other row as it is.
C28_CyclesMarkOnlyTheirOwnRow ==
    /\ [](\A p, q \in Procs :
            /\ (p # q /\ Sending(p) /\ Sending(q)) => run[p].alert_id # run[q].alert_id
            /\ Sending(p) =>
                  /\ run[p].alert_id \in DOMAIN budget_alerts
                  /\ ~ budget_alerts[run[p].alert_id].notified)
    /\ [][\A p \in Procs :
            Dispatches(p) =>
               /\ DOMAIN budget_alerts' = DOMAIN budget_alerts
               /\ \A a \in DOMAIN budget_alerts :
                     a # run[p].alert_id => budget_alerts'[a] = budget_alerts[a]
               /\ budget_alerts'[run[p].alert_id].notified
                     <=> (run[p].email_sent \/ run[p].slack_sent)
        ]_vars

\* The second cycle stored its row after the first and was done before it: its
\* row is marked, and the first cycle, whose sends both failed, is about to
\* leave its own row of the same budget unmarked.
C28_Witness ==
    /\ run[2].pc = "mark"
    /\ run[2].alert_id = 1
    /\ ~ run[2].email_sent
    /\ ~ run[2].slack_sent
    /\ run[1].pc = "done"
    /\ Len(budget_alerts) = 2
    /\ budget_alerts[2].notified
    /\ ~ budget_alerts[1].notified
    /\ budget_alerts[1].budget_id = budget_alerts[2].budget_id

\* The table is what a number of whole frames, stored one after the other, make.
RECURSIVE WholeFrames(_)
WholeFrames(rows) ==
    \/ rows = <<>>
    \/ \E df \in CostInputs :
          /\ IsPrefix(format_cost_data(df), rows)
          /\ WholeFrames(SubSeq(rows, Len(df) + 1, Len(rows)))

\* C29: while collections interleave with a cycle, the spend of each budget is
\* summed from the ledger as it stands at the one step that evaluates the budget,
\* a ledger made of whole frames only, and the step does not change it; the
\* budgets of one cycle may see different ledgers.
C29_SpendFromOneLedgerState ==
    /\ [](WholeFrames(cost_data))
    /\ [][\A p \in Procs :
            Evaluates(p) =>
               /\ cost_data' = cost_data
               /\ Len(run'[p].alerts) = Len(run[p].alerts) + 1 =>
                     LET seen == get_cost_data(cost_data,
                                    strftime(start_date(Evaluated(p).period, run[p].now)),
                                    strftime(run[p].now), Evaluated(p).provider)
                         kept == IF Truthy(Evaluated(p).service)
                                 THEN SelectSeq(seen, LAMBDA r : r.service = Evaluated(p).service)
                                 ELSE seen
                     IN  /\ run'[p].alerts[Len(run'[p].alerts)].actual = SumCost(kept)
                         /\ WholeFrames(cost_data)
        ]_vars

\* A frame was collected between the evaluations of two budgets: the first
\* alert's spend is no longer what the ledger gives for its budget.
C29_Witness ==
    /\ run[1].pc = "store"
    /\ Len(run[1].alerts) = 2
    /\ Len(run[1].alert_system) = 2
    /\ run[1].alerts[1].actual
          # SumCost(budget_rows(cost_data, run[1].alert_system[1], run[1].now))

\* C30: for the same now, ledger and budget of an amount above zero, the
\* dashboard's overview uses the evaluator's window, and it shows the budget as
\* over budget exactly when the evaluator emits an alert for it, with the same
\* spend.
C30_OverviewAgreesWithEvaluator ==
    [][\A p \in Procs :
         (/\ Evaluates(p)
          /\ Evaluated(p).period \in KnownPeriods
          /\ Evaluated(p).amount > 0) =>
            LET status == render_budget_overview(cost_data, Evaluated(p), run[p].now)[1]
                alerted == Len(run'[p].alerts) = Len(run[p].alerts) + 1
            IN  /\ status.start_date = start_date(Evaluated(p).period, run[p].now)
                /\ status.end_date = end_date(run[p].now)
                /\ status.actual = SumCost(budget_rows(cost_data, Evaluated(p), run[p].now))
                /\ over_budget(status) <=> alerted
                /\ alerted => status.actual = run'[p].alerts[Len(run'[p].alerts)].actual
      ]_vars

\* The evaluator has just found a budget of a positive amount in breach, and the
\* overview of the same ledger shows it over budget with the same spend; another
\* budget of a positive amount is shown at more than 90 per cent and not over.
C30_Witness ==
    /\ run[1].pc = "store"
    /\ Len(run[1].alerts) = 1
    /\ run[1].alerts[1].budget > 0
    /\ \E j \in DOMAIN budgets :
          LET status == render_budget_overview(cost_data, budgets[j], run[1].now)
          IN  /\ budgets[j].name = run[1].alerts[1].name
              /\ status # <<>>
              /\ over_budget(status[1])
              /\ status[1].actual = run[1].alerts[1].actual
    /\ \E j \in DOMAIN budgets :
          LET status == render_budget_overview(cost_data, budgets[j], run[1].now)
          IN  /\ budgets[j].amount > 0
              /\ status # <<>>
              /\ ~ over_budget(status[1])
              /\ status[1].actual > 0

====
